---- MODULE Spec2Model ----
(***************************************************************************)
(* Caesar cipher application (src/Caeser_Cypher.py).                       *)
(*                                                                         *)
(* A character is its Unicode code point (what ord() returns), a text is   *)
(* a sequence of characters.  Three specifications are given:              *)
(*   SpecEngine   the pure cipher functions applied to bounded inputs;     *)
(*   SpecApp      the CaesarApp event handlers and Tk timer callbacks;     *)
(*   SpecSession  the same handlers, longer runs, one animation at a time. *)
(* Definitions named after a function of the source with a suffix          *)
(* (shift_char_trunc, brute_force_from1, ...) are that function with one   *)
(* slip made in it; the claims are checked to tell them from the function. *)
(***************************************************************************)
EXTENDS Integers, Sequences, FiniteSets, TLC

VARIABLES
    arg_text,      \* engine: the text argument of the calls
    arg_shift,     \* engine: the shift argument of the calls
    ret,           \* engine: the most recent call and what it returned
    input_text,    \* app: content of the input CTkTextbox (without Tk's final newline)
    output_text,   \* app: content of the output CTkTextbox (without Tk's final newline)
    mode,          \* app: self.mode
    shift,         \* app: self.shift
    status_text,   \* app: self.status_text
    status_label,  \* app: text option of self.status_label, <<message, characters shown>>
    shift_label,   \* app: text option of self.shift_label
    appearance,    \* app: ctk appearance mode, "dark" or "light"
    theme_label,   \* app: text option of self.theme_label
    clipboard,     \* app: the clipboard content
    file,          \* app: what the last f.write wrote, empty before any write
    timers,        \* app: pending after() callbacks, in firing order
    pc,            \* app: "idle", or "save_dialog" while _save_file waits in its file dialog
    save_out,      \* app: the local out of the _save_file call waiting in its dialog
    ev,            \* history: the handler that ran last and the branch it took
    done,          \* history: arguments of the most recently executed _do_process
    cleared,       \* history: TRUE until a _do_process runs after start / the last Clear
    last_anim,     \* history: message of the most recently started animation
    nev,           \* number of user events so far
    limits         \* the bounds of the run: user events, animations in flight

engine_vars == <<arg_text, arg_shift, ret>>
app_vars == <<input_text, output_text, mode, shift, status_text, status_label,
              shift_label, appearance, theme_label, clipboard, file, timers,
              pc, save_out, ev, done, cleared, last_anim, nev, limits>>
vars == <<arg_text, arg_shift, ret, input_text, output_text, mode, shift,
          status_text, status_label, shift_label, appearance, theme_label,
          clipboard, file, timers, pc, save_out, ev, done, cleared, last_anim, nev, limits>>

(***************************************************************************)
(* Bounds of the model.                                                    *)
(***************************************************************************)
MaxLen == 3        \* longest text given to the engine
MaxShift == 27     \* engine shifts range over -MaxShift .. MaxShift
MaxEvents == 3     \* SpecApp: user events in one run of the application
MaxAnims == 2      \* SpecApp: animations in flight when the user starts another one
MaxSessionEvents == 5   \* SpecSession: user events in one run of the application
MaxSessionAnims == 1    \* SpecSession: animations in flight when the user starts one

(***************************************************************************)
(* Program constants.                                                      *)
(***************************************************************************)
DEFAULT_SHIFT == 3
ALPHABET_SIZE == 26
MaxCodePoint == 1114111   \* chr() accepts range(0x110000)

ord_A == 65
ord_Z == 90
ord_a == 97
ord_z == 122
NL == 10          \* '\n'
SP == 32          \* ' '

\* chr(n): the character with code point n; ValueError outside range(0x110000)
ValueError == -1
chr(n) == IF 0 <= n /\ n <= MaxCodePoint THEN n ELSE ValueError

(***************************************************************************)
(* Caesar logic                                                            *)
(***************************************************************************)
\* n % m with the sign of the dividend (C, Java); not what Python computes
TruncMod(n, m) == IF n >= 0 THEN n % m ELSE 0 - ((0 - n) % m)

\* shift_char with a remainder that is negative for a negative dividend
shift_char_trunc(ch, s) ==
    IF ord_A <= ch /\ ch <= ord_Z
    THEN chr(TruncMod((ch - ord_A) + s, ALPHABET_SIZE) + ord_A)
    ELSE IF ord_a <= ch /\ ch <= ord_z
         THEN chr(TruncMod((ch - ord_a) + s, ALPHABET_SIZE) + ord_a)
         ELSE ch

\* shift_char with a single range 'A'..'z', mapped into the uppercase alphabet
shift_char_onecase(ch, s) ==
    IF ord_A <= ch /\ ch <= ord_z
    THEN chr((((ch - ord_A) + s) % ALPHABET_SIZE) + ord_A)
    ELSE ch

\* shift_char reducing the shift but not the sum
shift_char_nowrap(ch, s) ==
    IF ord_A <= ch /\ ch <= ord_Z
    THEN chr(((ch - ord_A) + (s % ALPHABET_SIZE)) + ord_A)
    ELSE IF ord_a <= ch /\ ch <= ord_z
         THEN chr(((ch - ord_a) + (s % ALPHABET_SIZE)) + ord_a)
         ELSE ch

\* Python's % with a positive modulus is the non-negative residue, as is TLA+'s
shift_char(ch, s) ==
    IF ord_A <= ch /\ ch <= ord_Z
    THEN LET idx == ch - ord_A
         IN  chr(((idx + s) % ALPHABET_SIZE) + ord_A)
    ELSE IF ord_a <= ch /\ ch <= ord_z
         THEN LET idx == ch - ord_a
              IN  chr(((idx + s) % ALPHABET_SIZE) + ord_a)
         ELSE ch

\* ''.join(shift_char(ch, shift) for ch in text)
encrypt_text(text, s) == [i \in 1..Len(text) |-> shift_char(text[i], s)]

\* decrypt_text without the negation of the shift
decrypt_text_same(text, s) == encrypt_text(text, s)

decrypt_text(text, s) == encrypt_text(text, 0 - s)

\* str(n) for an integer n
RECURSIVE digits(_)
digits(n) == IF n < 10 THEN <<48 + n>> ELSE Append(digits(n \div 10), 48 + (n % 10))
str_int(n) == IF n < 0 THEN <<45>> \o digits(0 - n) ELSE digits(n)

\* f"{n:2d}": str(n) padded with spaces on the left to width 2
fmt_2d(n) ==
    LET d == str_int(n)
    IN  IF Len(d) >= 2 THEN d ELSE [i \in 1..(2 - Len(d)) |-> SP] \o d

lit_Shift == <<83, 104, 105, 102, 116, 32>>    \* "Shift "
lit_colon == <<58, 32>>                         \* ": "

\* f"Shift {s:2d}: {decrypt_text(text, s)}"
bf_line(text, s) == lit_Shift \o fmt_2d(s) \o lit_colon \o decrypt_text(text, s)

\* sep.join(lines)
RECURSIVE join(_, _)
join(sep, lines) ==
    IF Len(lines) = 0 THEN <<>>
    ELSE IF Len(lines) = 1 THEN lines[1]
         ELSE lines[1] \o sep \o join(sep, Tail(lines))

\* brute_force over range(1, ALPHABET_SIZE)
brute_force_from1(text) ==
    join(<<NL>>, [k \in 1..(ALPHABET_SIZE - 1) |-> bf_line(text, k)])

\* brute_force ending every line, the last included, with a newline
brute_force_trailing(text) ==
    join(<<NL>>, [k \in 1..ALPHABET_SIZE |-> bf_line(text, k - 1)]) \o <<NL>>

\* brute_force listing encrypt_text(text, s)
brute_force_enc(text) ==
    join(<<NL>>, [k \in 1..ALPHABET_SIZE |-> lit_Shift \o fmt_2d(k - 1) \o lit_colon
                                              \o encrypt_text(text, k - 1)])

\* lines[k] is the entry appended for s = k - 1, s in range(ALPHABET_SIZE)
brute_force(text) ==
    LET lines == [k \in 1..ALPHABET_SIZE |-> bf_line(text, k - 1)]
    IN  join(<<NL>>, lines)

(***************************************************************************)
(* The engine applied to bounded inputs.                                   *)
(***************************************************************************)
\* characters texts are built from: newline, space, both ends of the uppercase
\* alphabet and the end of the lowercase one
TextChars == {NL, SP, ord_A, ord_Z, ord_z}
\* characters given to shift_char: the above, a letter inside each alphabet, the
\* neighbours of the alphabets' ends, a digit and a non-ASCII letter
Chars == TextChars \cup {ord_a, 48, 64, 72, 88, 89, 91, 96, 111, 123, 233}

RECURSIVE TextsOfLen(_)
TextsOfLen(n) ==
    IF n = 0 THEN {<<>>}
    ELSE {Append(t, c) : t \in TextsOfLen(n - 1), c \in TextChars}
Texts == UNION {TextsOfLen(n) : n \in 0..MaxLen}
Shifts == (0 - MaxShift)..MaxShift

NoCall == [fn |-> "none", ch |-> 0, out |-> <<>>]

AppIdle ==
    /\ input_text = <<>>
    /\ output_text = <<>>
    /\ mode = "Encrypt"
    /\ shift = DEFAULT_SHIFT
    /\ status_text = "Ready"
    /\ status_label = <<"", 0>>
    /\ shift_label = <<"Shift: ", DEFAULT_SHIFT>>
    /\ appearance = "dark"
    /\ theme_label = "Dark"
    /\ clipboard = <<>>
    /\ file = <<>>
    /\ timers = <<>>
    /\ pc = "idle"
    /\ save_out = <<>>
    /\ ev = "init"
    /\ done = [txt |-> <<>>, mode |-> "none", shift |-> 0]
    /\ cleared = TRUE
    /\ last_anim = ""
    /\ nev = 0

InitEngine ==
    /\ arg_text \in Texts
    /\ arg_shift \in Shifts
    /\ ret = NoCall
    /\ AppIdle
    /\ limits = [events |-> 0, anims |-> 0]

Call_shift_char(ch) ==
    /\ ret.fn = "none"
    /\ ret' = [fn |-> "shift_char", ch |-> ch, out |-> <<shift_char(ch, arg_shift)>>]
    /\ UNCHANGED <<arg_text, arg_shift>>

Call_encrypt_text ==
    /\ ret.fn = "none"
    /\ ret' = [fn |-> "encrypt_text", ch |-> 0, out |-> encrypt_text(arg_text, arg_shift)]
    /\ UNCHANGED <<arg_text, arg_shift>>

Call_decrypt_text ==
    /\ ret.fn = "none"
    /\ ret' = [fn |-> "decrypt_text", ch |-> 0, out |-> decrypt_text(arg_text, arg_shift)]
    /\ UNCHANGED <<arg_text, arg_shift>>

Call_brute_force ==
    /\ ret.fn = "none"
    /\ ret' = [fn |-> "brute_force", ch |-> 0, out |-> brute_force(arg_text)]
    /\ UNCHANGED <<arg_text, arg_shift>>

\* decrypt_text(encrypt_text(arg_text, arg_shift), arg_shift)
Call_decrypt_of_encrypted ==
    /\ ret.fn = "encrypt_text"
    /\ ret' = [fn |-> "decrypt_text(encrypt_text)", ch |-> 0,
               out |-> decrypt_text(ret.out, arg_shift)]
    /\ UNCHANGED <<arg_text, arg_shift>>

\* brute_force(encrypt_text(arg_text, arg_shift))
Call_brute_force_of_encrypted ==
    /\ ret.fn = "encrypt_text"
    /\ ret' = [fn |-> "brute_force(encrypt_text)", ch |-> 0, out |-> brute_force(ret.out)]
    /\ UNCHANGED <<arg_text, arg_shift>>

NextEngine ==
    \/ \E ch \in Chars : Call_shift_char(ch) /\ UNCHANGED app_vars
    \/ Call_encrypt_text /\ UNCHANGED app_vars
    \/ Call_decrypt_text /\ UNCHANGED app_vars
    \/ Call_brute_force /\ UNCHANGED app_vars
    \/ Call_decrypt_of_encrypted /\ UNCHANGED app_vars
    \/ Call_brute_force_of_encrypted /\ UNCHANGED app_vars

SpecEngine == InitEngine /\ [][NextEngine]_vars

(***************************************************************************)
(* Strings and widgets of the presentation layer.                          *)
(***************************************************************************)
\* str.rstrip('\n')
RECURSIVE rstrip_nl(_)
rstrip_nl(t) ==
    IF t # <<>> /\ t[Len(t)] = NL THEN rstrip_nl(SubSeq(t, 1, Len(t) - 1)) ELSE t

\* the characters str.strip() removes (those for which str.isspace() is true)
IsSpace(c) ==
    \/ c \in 9..13
    \/ c \in 28..32
    \/ c \in {133, 160, 5760, 8232, 8233, 8239, 8287, 12288}
    \/ c \in 8192..8202

\* str.strip()
RECURSIVE strip(_)
strip(t) ==
    IF t = <<>> THEN t
    ELSE IF IsSpace(t[1]) THEN strip(Tail(t))
    ELSE IF IsSpace(t[Len(t)]) THEN strip(SubSeq(t, 1, Len(t) - 1))
    ELSE t

\* CTkTextbox.get("1.0", "end"): the content and the newline Tk keeps at the end
textbox_get(content) == content \o <<NL>>

max(a, b) == IF a >= b THEN a ELSE b
min(a, b) == IF a <= b THEN a ELSE b
clamp(n, smallest, largest) == max(smallest, min(n, largest))

\* len(text) of the status messages ("Done - ..." stands for "Done — ...", one
\* character either way); file names are os.path.basename of the chosen paths
MsgLen(msg) ==
    CASE msg = "Mode set to Encrypt" -> 19
      [] msg = "Mode set to Decrypt" -> 19
      [] msg = "Mode set to Brute Force" -> 23
      [] msg = "Switched to Light mode" -> 22
      [] msg = "Switched to Dark mode" -> 21
      [] msg = "Done - Encrypt completed" -> 24
      [] msg = "Done - Decrypt completed" -> 24
      [] msg = "Done - Brute Force completed" -> 28
      [] msg = "Cleared text fields" -> 19
      [] msg = "Nothing to copy" -> 15
      [] msg = "Output copied to clipboard" -> 26
      [] msg = "Loaded: in.txt" -> 14
      [] msg = "Saved to: out.txt" -> 17

\* f"Mode set to {m}"
ModeSetMsg(m) ==
    CASE m = "Encrypt" -> "Mode set to Encrypt"
      [] m = "Decrypt" -> "Mode set to Decrypt"
      [] m = "Brute Force" -> "Mode set to Brute Force"

\* f"Done — {mode} completed"
DoneMsg(m) ==
    CASE m = "Encrypt" -> "Done - Encrypt completed"
      [] m = "Decrypt" -> "Done - Decrypt completed"
      [] m = "Brute Force" -> "Done - Brute Force completed"

\* f"Switched to {new.capitalize()} mode"
SwitchedMsg(new) == IF new = "light" THEN "Switched to Light mode" ELSE "Switched to Dark mode"

(***************************************************************************)
(* Tk timers: after(ms, callback).  timers holds the pending callbacks in  *)
(* firing order, each with the time left until it is due; callbacks due at *)
(* the same time fire in the order they were registered.  Time passes only *)
(* up to the moment the next callback is due: user events are taken at the *)
(* moments an event or a callback has just been handled.                   *)
(***************************************************************************)
StepCb(msg, i, wait) ==
    [cb |-> "step", rem |-> wait, msg |-> msg, i |-> i, wait |-> wait,
     txt |-> <<>>, mode |-> "", shift |-> 0]

ProcessCb(txt, m, s) ==
    [cb |-> "_do_process", rem |-> 120, msg |-> "", i |-> 0, wait |-> 0,
     txt |-> txt, mode |-> m, shift |-> s]

after(ts, t) ==
    LET k == Cardinality({j \in 1..Len(ts) : ts[j].rem <= t.rem})
    IN  SubSeq(ts, 1, k) \o <<t>> \o SubSeq(ts, k + 1, Len(ts))

\* the pending callbacks once the first has come due
elapse(ts) == [j \in 1..(Len(ts) - 1) |-> [ts[j + 1] EXCEPT !.rem = @ - ts[1].rem]]

(***************************************************************************)
(* UI helpers (animations)                                                 *)
(***************************************************************************)
steps == 8

\* ''.join(chars[:int(len(chars) * (i / steps))]): a prefix of msg, as the message
\* and the number of characters of it that show; the empty prefix is <<"", 0>>
show(msg, i) ==
    LET k == (MsgLen(msg) * i) \div steps
    IN  IF k = 0 THEN <<"", 0>> ELSE <<msg, k>>

animate_wait(duration) == max(10, duration \div steps)

\* animate_label_fade(self.status_label, text, duration) with ts the pending
\* callbacks: the label is emptied, step(1) shows the first prefix and registers
\* step(2)
animate_label_fade(ts, text, duration) ==
    /\ status_label' = show(text, 1)
    /\ timers' = after(ts, StepCb(text, 2, animate_wait(duration)))
    /\ last_anim' = text

\* step(i) of the animation of t.msg, fired by the timer t; ts are the others
step(ts, t) ==
    /\ status_label' = show(t.msg, t.i)
    /\ timers' = IF t.i < steps THEN after(ts, StepCb(t.msg, t.i + 1, t.wait)) ELSE ts

(***************************************************************************)
(* Main Application: event handlers & actions                              *)
(***************************************************************************)
Modes == {"Encrypt", "Decrypt", "Brute Force"}

\* slider positions tried (the slider runs from 0 to 25)
SliderValues == {0, 25}

\* contents of the files tried with Load: a letter and the newline that ends the
\* file, a blank file, two lines with a blank line after them
LoadContents == {<<ord_Z, NL>>, <<SP, NL>>, <<ord_a, NL, ord_A, NL, NL>>}

\* the state after CaesarApp.__init__
InitApp ==
    /\ arg_text = <<>>
    /\ arg_shift = 0
    /\ ret = NoCall
    /\ AppIdle
    /\ limits = [events |-> MaxEvents, anims |-> MaxAnims]

\* the same, for longer runs with fewer animations at a time
InitSession ==
    /\ arg_text = <<>>
    /\ arg_shift = 0
    /\ ret = NoCall
    /\ AppIdle
    /\ limits = [events |-> MaxSessionEvents, anims |-> MaxSessionAnims]

\* a user event is handled: the main window takes events only while no dialog of
\* the application is open
UserEvent ==
    /\ pc = "idle"
    /\ nev < limits.events
    /\ nev' = nev + 1
    /\ UNCHANGED limits

\* the animations in flight: each has one step pending
AnimsInFlight == Cardinality({j \in 1..Len(timers) : timers[j].cb = "step"})

\* a user event whose handler starts an animation
AnimatingEvent ==
    /\ UserEvent
    /\ AnimsInFlight < limits.anims

_on_mode_change(m) ==
    /\ AnimatingEvent
    /\ mode' = m
    /\ animate_label_fade(timers, ModeSetMsg(m), 260)
    /\ shift_label' = IF m = "Brute Force" THEN <<"Shift: (unused in brute mode)", 0>>
                      ELSE <<"Shift: ", shift>>
    /\ ev' = "_on_mode_change"
    /\ UNCHANGED <<input_text, output_text, shift, status_text, appearance, theme_label,
                   clipboard, file, pc, save_out, done, cleared>>

_on_shift_slide(val) ==
    /\ UserEvent
    /\ shift' = val
    /\ shift_label' = <<"Shift: ", val>>
    /\ ev' = "_on_shift_slide"
    /\ UNCHANGED <<input_text, output_text, mode, status_text, status_label, appearance,
                   theme_label, clipboard, file, timers, pc, save_out, done, cleared,
                   last_anim>>

_toggle_theme ==
    /\ AnimatingEvent
    /\ LET new == IF appearance = "dark" THEN "light" ELSE "dark"
       IN  /\ appearance' = new
           /\ theme_label' = (IF new = "light" THEN "Light" ELSE "Dark")
           /\ animate_label_fade(timers, SwitchedMsg(new), 300)
    /\ ev' = "_toggle_theme"
    /\ UNCHANGED <<input_text, output_text, mode, shift, status_text, shift_label,
                   clipboard, file, pc, save_out, done, cleared>>

\* what _run reads: the input text, the mode and the shift
run_snapshot ==
    ProcessCb(rstrip_nl(textbox_get(input_text)), mode, clamp(shift, 0, 25))

_run ==
    /\ UserEvent
    /\ IF strip(run_snapshot.txt) = <<>>
       THEN \* messagebox.showwarning; return
            /\ ev' = "_run: no input"
            /\ UNCHANGED <<status_text, timers>>
       ELSE /\ status_text' = "Processing..."
            /\ timers' = after(timers, run_snapshot)
            /\ ev' = "_run"
    /\ UNCHANGED <<input_text, output_text, mode, shift, status_label, shift_label,
                   appearance, theme_label, clipboard, file, pc, save_out, done, cleared,
                   last_anim>>

engine_call(txt, m, s) ==
    IF m = "Encrypt" THEN encrypt_text(txt, s)
    ELSE IF m = "Decrypt" THEN decrypt_text(txt, s)
    ELSE brute_force(txt)

\* _do_process reading self.mode and self.shift when it fires
do_process_current(ts, t) ==
    LET out == engine_call(t.txt, mode, clamp(shift, 0, 25))
    IN  /\ output_text' = out
        /\ animate_label_fade(ts, DoneMsg(mode), 260)
        /\ done' = [txt |-> t.txt, mode |-> t.mode, shift |-> t.shift]
        /\ cleared' = FALSE
        /\ ev' = "_do_process"
        /\ UNCHANGED <<input_text, mode, shift, status_text, shift_label, appearance,
                       theme_label, clipboard, file, pc, save_out, nev, limits>>

\* _do_process(txt, mode, shift_val), fired by the timer t; ts are the others
_do_process(ts, t) ==
    LET out == engine_call(t.txt, t.mode, t.shift)
    IN  /\ output_text' = out
        /\ animate_label_fade(ts, DoneMsg(t.mode), 260)
        /\ done' = [txt |-> t.txt, mode |-> t.mode, shift |-> t.shift]
        /\ cleared' = FALSE
        /\ ev' = "_do_process"
        /\ UNCHANGED <<input_text, mode, shift, status_text, shift_label, appearance,
                       theme_label, clipboard, file, pc, save_out, nev, limits>>

_clear_texts ==
    /\ AnimatingEvent
    /\ input_text' = <<>>
    /\ output_text' = <<>>
    /\ animate_label_fade(timers, "Cleared text fields", 180)
    /\ cleared' = TRUE
    /\ ev' = "_clear_texts"
    /\ UNCHANGED <<mode, shift, status_text, shift_label, appearance, theme_label,
                   clipboard, file, pc, save_out, done>>

_copy_output ==
    /\ AnimatingEvent
    /\ LET out == rstrip_nl(textbox_get(output_text))
       IN  IF out = <<>>
           THEN /\ animate_label_fade(timers, "Nothing to copy", 180)
                /\ ev' = "_copy_output: nothing"
                /\ UNCHANGED clipboard
           ELSE /\ clipboard' = out
                /\ animate_label_fade(timers, "Output copied to clipboard", 160)
                /\ ev' = "_copy_output"
    /\ UNCHANGED <<input_text, output_text, mode, shift, status_text, shift_label,
                   appearance, theme_label, file, pc, save_out, done, cleared>>

\* _load_file when the dialog returns a path and the file reads as content
_load_file(content) ==
    /\ AnimatingEvent
    /\ input_text' = content
    /\ animate_label_fade(timers, "Loaded: in.txt", 200)
    /\ ev' = "_load_file"
    /\ UNCHANGED <<output_text, mode, shift, status_text, shift_label, appearance,
                   theme_label, clipboard, file, pc, save_out, done, cleared>>

\* _load_file when the dialog is cancelled, or open / read raises (messagebox)
_load_file_nothing ==
    /\ UserEvent
    /\ ev' = "_load_file: nothing"
    /\ UNCHANGED <<input_text, output_text, mode, shift, status_text, status_label,
                   shift_label, appearance, theme_label, clipboard, file, timers, pc,
                   save_out, done, cleared, last_anim>>

\* _save_file up to its file dialog: out is read, and when it is not empty
\* filedialog.asksaveasfilename opens.  The dialog is modal and runs the Tk event
\* loop until it is answered: timer callbacks fire meanwhile, user events of the
\* main window do not.
_save_file ==
    /\ UserEvent
    /\ LET out == rstrip_nl(textbox_get(output_text))
       IN  IF out = <<>>
           THEN \* messagebox.showwarning; return
                /\ ev' = "_save_file: empty"
                /\ UNCHANGED <<pc, save_out>>
           ELSE /\ pc' = "save_dialog"
                /\ save_out' = out
                /\ ev' = "_save_file: dialog"
    /\ UNCHANGED <<input_text, output_text, mode, shift, status_text, status_label,
                   shift_label, appearance, theme_label, clipboard, file, timers, done,
                   cleared, last_anim>>

\* _save_file from the dialog's answer on: a path was chosen and the write succeeds
_save_file_write ==
    /\ pc = "save_dialog"
    /\ AnimsInFlight < limits.anims
    /\ pc' = "idle"
    /\ file' = save_out
    /\ save_out' = <<>>
    /\ animate_label_fade(timers, "Saved to: out.txt", 200)
    /\ ev' = "_save_file: written"
    /\ UNCHANGED <<input_text, output_text, mode, shift, status_text, shift_label,
                   appearance, theme_label, clipboard, done, cleared, nev, limits>>

\* _save_file from the dialog's answer on: cancelled, or open / write raises
_save_file_nothing ==
    /\ pc = "save_dialog"
    /\ pc' = "idle"
    /\ save_out' = <<>>
    /\ ev' = "_save_file: nothing"
    /\ UNCHANGED <<input_text, output_text, mode, shift, status_text, status_label,
                   shift_label, appearance, theme_label, clipboard, file, timers, done,
                   cleared, last_anim, nev, limits>>

\* the next pending callback comes due and runs
FireStep ==
    /\ timers # <<>>
    /\ Head(timers).cb = "step"
    /\ step(elapse(timers), Head(timers))
    /\ ev' = "step"
    /\ UNCHANGED <<input_text, output_text, mode, shift, status_text, shift_label,
                   appearance, theme_label, clipboard, file, pc, save_out, done, cleared,
                   last_anim, nev, limits>>

FireProcess ==
    /\ timers # <<>>
    /\ Head(timers).cb = "_do_process"
    /\ _do_process(elapse(timers), Head(timers))

NextApp ==
    \/ \E m \in Modes : _on_mode_change(m) /\ UNCHANGED engine_vars
    \/ \E val \in SliderValues : _on_shift_slide(val) /\ UNCHANGED engine_vars
    \/ _toggle_theme /\ UNCHANGED engine_vars
    \/ _run /\ UNCHANGED engine_vars
    \/ _clear_texts /\ UNCHANGED engine_vars
    \/ _copy_output /\ UNCHANGED engine_vars
    \/ \E content \in LoadContents : _load_file(content) /\ UNCHANGED engine_vars
    \/ _load_file_nothing /\ UNCHANGED engine_vars
    \/ _save_file /\ UNCHANGED engine_vars
    \/ _save_file_write /\ UNCHANGED engine_vars
    \/ _save_file_nothing /\ UNCHANGED engine_vars
    \/ FireStep /\ UNCHANGED engine_vars
    \/ FireProcess /\ UNCHANGED engine_vars

SpecApp == InitApp /\ [][NextApp]_vars

SpecSession == InitSession /\ [][NextApp]_vars

(***************************************************************************)
(* Reference definitions the claims are stated with.                       *)
(***************************************************************************)
RefUpper == <<65, 66, 67, 68, 69, 70, 71, 72, 73, 74, 75, 76, 77,
              78, 79, 80, 81, 82, 83, 84, 85, 86, 87, 88, 89, 90>>
RefLower == <<97, 98, 99, 100, 101, 102, 103, 104, 105, 106, 107, 108, 109,
              110, 111, 112, 113, 114, 115, 116, 117, 118, 119, 120, 121, 122>>

IsUpper(c) == \E i \in 1..26 : RefUpper[i] = c
IsLower(c) == \E i \in 1..26 : RefLower[i] = c
IsLetter(c) == IsUpper(c) \/ IsLower(c)
IndexIn(alphabet, c) == CHOOSE i \in 1..26 : alphabet[i] = c

\* the residue of n modulo 26 in 0..25, by repeated addition or subtraction
RECURSIVE RefMod(_)
RefMod(n) == IF n < 0 THEN RefMod(n + 26) ELSE IF n > 25 THEN RefMod(n - 26) ELSE n

RefShift(c, s) ==
    IF IsUpper(c) THEN RefUpper[RefMod((IndexIn(RefUpper, c) - 1) + s) + 1]
    ELSE IF IsLower(c) THEN RefLower[RefMod((IndexIn(RefLower, c) - 1) + s) + 1]
    ELSE c

CountNL(t) == Cardinality({i \in 1..Len(t) : t[i] = NL})

\* t split at its newline characters: CountNL(t) + 1 pieces
RECURSIVE SplitNL(_)
SplitNL(t) ==
    IF CountNL(t) = 0 THEN <<t>>
    ELSE LET i == CHOOSE j \in 1..Len(t) : t[j] = NL /\ \A k \in 1..(j - 1) : t[k] # NL
         IN  <<SubSeq(t, 1, i - 1)>> \o SplitNL(SubSeq(t, i + 1, Len(t)))

\* "Shift " then s right-aligned in a field of width 2 then ": ", for s in 0..99
RefPrefix(s) ==
    <<83, 104, 105, 102, 116, 32>>
    \o (IF s < 10 THEN <<32, 48 + s>> ELSE <<48 + (s \div 10), 48 + (s % 10)>>)
    \o <<58, 32>>

\* the characters of t from position from, n of them
Slice(t, from, n) == SubSeq(t, from, from + n - 1)

HasMix(t) ==
    /\ \E i \in 1..Len(t) : IsUpper(t[i])
    /\ \E i \in 1..Len(t) : IsLower(t[i])
    /\ \E i \in 1..Len(t) : ~IsLetter(t[i])

(***************************************************************************)
(* Claims about the engine (under SpecEngine).                             *)
(***************************************************************************)

\* C1: round trip: decrypt_text(encrypt_text(T, s), s) = T for every text T and
\* every integer shift s.
C1_RoundTrip ==
    ret.fn = "decrypt_text(encrypt_text)" => ret.out = arg_text

C1_Witness ==
    /\ ret.fn = "decrypt_text(encrypt_text)"
    /\ HasMix(arg_text)
    /\ arg_shift < 0 - 26
    /\ ret.out = arg_text

\* C2: shift_char(ch, shift) is the reference rule: a letter at index i of its
\* alphabet goes to the letter at index (i + shift) mod 26 of the same alphabet,
\* the residue taken in 0..25; any other character is returned unchanged; X, Y, Z
\* shifted by 3 give A, B, C.
C2_ShiftCharRule ==
    ret.fn = "shift_char" =>
        /\ ret.out = <<RefShift(ret.ch, arg_shift)>>
        /\ IsUpper(ret.ch) => IsUpper(ret.out[1])
        /\ IsLower(ret.ch) => IsLower(ret.out[1])
        /\ ~IsLetter(ret.ch) => ret.out[1] = ret.ch
        /\ (arg_shift = 3 /\ ret.ch \in {88, 89, 90}) => ret.out[1] = ret.ch - 23

C2_Witness ==
    /\ ret.fn = "shift_char"
    /\ arg_shift = 0 - 27
    /\ ret.ch = ord_a
    /\ ret.out = <<ord_z>>

\* C3 as claimed: for every text, brute_force(text) split at newline characters
\* has exactly 26 entries, entry s being "Shift " + s in width 2 + ": " +
\* decrypt_text(text, s), and the output does not end with a newline.
C3_Original ==
    ret.fn = "brute_force" =>
        LET L == SplitNL(ret.out)
        IN  /\ Len(L) = 26
            /\ \A s \in 0..25 : L[s + 1] = RefPrefix(s) \o decrypt_text(arg_text, s)
            /\ ret.out[Len(ret.out)] # NL

\* C3 amended: brute_force(text) is 26 entries, entry s being "Shift " + s in
\* width 2 + ": " + decrypt_text(text, s), with one newline between consecutive
\* entries and nothing after the last; split at newline characters it has
\* 26 * (k + 1) pieces for a text with k newlines, so exactly the 26 entries when
\* the text has no newline, and it ends with a newline exactly when the text does.
C3_BruteForceEntries ==
    ret.fn = "brute_force" =>
        LET n == 10 + Len(arg_text)
            L == SplitNL(ret.out)
        IN  /\ Len(ret.out) = 26 * n + 25
            /\ \A s \in 0..25 :
                  Slice(ret.out, s * (n + 1) + 1, n) = RefPrefix(s) \o decrypt_text(arg_text, s)
            /\ \A s \in 1..25 : ret.out[s * (n + 1)] = NL
            /\ Len(L) = 26 * (CountNL(arg_text) + 1)
            /\ CountNL(arg_text) = 0 =>
                  \A s \in 0..25 : L[s + 1] = RefPrefix(s) \o decrypt_text(arg_text, s)
            /\ (ret.out[Len(ret.out)] = NL) <=>
                  (arg_text # <<>> /\ arg_text[Len(arg_text)] = NL)

C3_Witness ==
    /\ ret.fn = "brute_force"
    /\ CountNL(arg_text) = 1
    /\ \E i \in 1..Len(arg_text) : IsLetter(arg_text[i])
    /\ Len(SplitNL(ret.out)) = 52

\* C4 as claimed: for every text T and every s in 0..25, the entry for shift s of
\* brute_force(encrypt_text(T, s)) split at newlines is the line
\* "Shift " + s in width 2 + ": " + T.
C4_Original ==
    (ret.fn = "brute_force(encrypt_text)" /\ arg_shift \in 0..25) =>
        SplitNL(ret.out)[arg_shift + 1] = RefPrefix(arg_shift) \o arg_text

\* C4 amended: for every text T and every s in 0..25, the s-th of the 26 entries
\* joined by brute_force(encrypt_text(T, s)) is "Shift " + s in width 2 + ": " + T;
\* it is a line of the output (the entry at position s of the output split at
\* newlines) when T contains no newline character.
C4_BruteForceReveals ==
    (ret.fn = "brute_force(encrypt_text)" /\ arg_shift \in 0..25) =>
        LET n == 10 + Len(arg_text)
        IN  /\ Slice(ret.out, arg_shift * (n + 1) + 1, n) = RefPrefix(arg_shift) \o arg_text
            /\ (arg_shift > 0) => ret.out[arg_shift * (n + 1)] = NL
            /\ (arg_shift < 25) => ret.out[(arg_shift + 1) * (n + 1)] = NL
            /\ CountNL(arg_text) = 0 =>
                  SplitNL(ret.out)[arg_shift + 1] = RefPrefix(arg_shift) \o arg_text

C4_Witness ==
    /\ ret.fn = "brute_force(encrypt_text)"
    /\ arg_shift = 3
    /\ HasMix(arg_text)
    /\ CountNL(arg_text) = 0
    /\ SplitNL(ret.out)[4] = <<83, 104, 105, 102, 116, 32, 32, 51, 58, 32>> \o arg_text

\* C5: periodicity: encrypt_text(T, s) = encrypt_text(T, s mod 26) with the
\* residue in 0..25, so shifts 26 apart agree, and encrypt_text(T, 0) = T.
C5_Periodicity ==
    ret.fn = "encrypt_text" =>
        /\ ret.out = encrypt_text(arg_text, RefMod(arg_shift))
        /\ ret.out = encrypt_text(arg_text, arg_shift + 26)
        /\ ret.out = encrypt_text(arg_text, arg_shift - 26)
        /\ arg_shift = 0 => ret.out = arg_text

C5_Witness ==
    /\ ret.fn = "encrypt_text"
    /\ arg_shift < 0
    /\ \E i \in 1..Len(arg_text) : IsLetter(arg_text[i])
    /\ ret.out # arg_text
    /\ ret.out = encrypt_text(arg_text, RefMod(arg_shift))

\* C6: encrypt_text and decrypt_text keep the length, keep every non-letter
\* where it is, and map uppercase to uppercase and lowercase to lowercase.
C6_Frame ==
    ret.fn \in {"encrypt_text", "decrypt_text"} =>
        /\ Len(ret.out) = Len(arg_text)
        /\ \A i \in 1..Len(arg_text) :
              /\ ~IsLetter(arg_text[i]) => ret.out[i] = arg_text[i]
              /\ IsUpper(arg_text[i]) => IsUpper(ret.out[i])
              /\ IsLower(arg_text[i]) => IsLower(ret.out[i])

C6_Witness ==
    /\ ret.fn = "decrypt_text"
    /\ HasMix(arg_text)
    /\ arg_shift > 25
    /\ \A i \in 1..Len(arg_text) : IsLetter(arg_text[i]) => ret.out[i] # arg_text[i]

\* C7: the engine is total: every call returns a text (no chr() raised), on the
\* empty text encrypt_text and decrypt_text return the empty text and
\* brute_force returns 26 lines, line s being only "Shift " + s in width 2 + ": ".
C7_Total ==
    ret.fn # "none" =>
        /\ \A i \in 1..Len(ret.out) : ret.out[i] \in 0..MaxCodePoint
        /\ (arg_text = <<>> /\ ret.fn \in {"encrypt_text", "decrypt_text"}) => ret.out = <<>>
        /\ (arg_text = <<>> /\ ret.fn = "brute_force") =>
              /\ Len(SplitNL(ret.out)) = 26
              /\ \A s \in 0..25 : SplitNL(ret.out)[s + 1] = RefPrefix(s)

C7_Witness ==
    /\ ret.fn = "brute_force"
    /\ arg_text = <<>>
    /\ arg_shift < 0
    /\ Len(ret.out) = 285

(***************************************************************************)
(* Claims about the application (under SpecApp and SpecSession).           *)
(***************************************************************************)
\* the engine result for a text, a mode and a shift
ExpectedOutput(txt, m, s) ==
    CASE m = "Encrypt" -> encrypt_text(txt, s)
      [] m = "Decrypt" -> decrypt_text(txt, s)
      [] OTHER -> brute_force(txt)

\* the arguments of the pending _do_process callbacks, in firing order
Pending(ts) ==
    LET p == SelectSeq(ts, LAMBDA t : t.cb = "_do_process")
    IN  [j \in 1..Len(p) |-> <<p[j].txt, p[j].mode, p[j].shift>>]

Blank(t) == \A i \in 1..Len(t) : IsSpace(t[i])

\* C8: whenever _save_file writes a file, the content written is exactly the
\* string returned by the engine call of the most recently executed _do_process,
\* and no file is written when no processing has executed since start or since
\* the last Clear.
C8_SaveWritesLatestResult ==
    ev = "_save_file: written" =>
        /\ ~cleared
        /\ file = ExpectedOutput(done.txt, done.mode, done.shift)

\* C9: _run schedules _do_process with the input text, the mode and the shift it
\* reads when invoked; on blank input it schedules nothing and leaves the output
\* alone; when the delayed _do_process fires, the output is the engine result for
\* the values of its Run, and is not empty; no other action (mode change, shift
\* change, Load, Clear, ...) changes or cancels a pending _do_process.
C9_RunSnapshot ==
    [][ /\ (ev' \in {"_run", "_run: no input"}) =>
              (ev' = "_run: no input" <=> Blank(input_text))
        /\ (ev' = "_run") =>
              /\ Pending(timers') =
                    Append(Pending(timers), <<rstrip_nl(input_text), mode, shift>>)
              /\ output_text' = output_text
        /\ (ev' = "_run: no input") =>
              /\ timers' = timers
              /\ output_text' = output_text
        /\ (ev' = "_do_process") =>
              /\ Pending(timers) # <<>>
              /\ Pending(timers') = Tail(Pending(timers))
              /\ LET a == Head(Pending(timers))
                 IN  output_text' = ExpectedOutput(a[1], a[2], a[3])
              /\ output_text' # <<>>
        /\ (ev' \notin {"_run", "_do_process"}) => Pending(timers') = Pending(timers)
      ]_vars

\* a _do_process has fired after a Clear that followed its Run: the input is
\* empty and the output is the result for the text Run read
C9_Witness ==
    /\ ev = "_do_process"
    /\ input_text = <<>>
    /\ done.txt # <<>>
    /\ output_text = ExpectedOutput(done.txt, done.mode, done.shift)
    /\ output_text # <<>>

\* C10: every animation's callback chain stops after its step 8, and once all
\* scheduled step callbacks have fired the status label shows the complete text
\* of the most recently started animation.
C10_LabelSettles ==
    /\ \A j \in 1..Len(timers) : timers[j].cb = "step" => timers[j].i <= 8
    /\ (AnimsInFlight = 0 /\ last_anim # "") => status_label = <<last_anim, MsgLen(last_anim)>>

====
